---- MODULE Spec2Model ----
(***************************************************************************)
(* A model of the minimal HTTP/1.1 server: the request parser              *)
(* (http/src/httprequest.rs), the response model                           *)
(* (http/src/httpresponse.rs), the handlers, the router and the accept     *)
(* loop (httpserver/src/{handlers,router,server}.rs).                      *)
(*                                                                         *)
(* A Rust String / &str is a sequence of one-character strings, so that    *)
(* contains, split, split_whitespace and lines are computed character by   *)
(* character as the code computes them.                                    *)
(***************************************************************************)
EXTENDS Integers, Sequences, FiniteSets, TLC

VARIABLES
    pc,           \* position of the running code
    public,       \* names of the files present in the public directory
    orders,       \* state of data/orders.json: "valid", "invalid" or "missing"
    conns,        \* number of connections accepted so far
    msg,          \* bytes the client of the current connection sent
    read_buffer,  \* Server::run's read_buffer
    req,          \* the parsed HttpRequest
    resp,         \* the HttpResponse the selected handler built
    handler,      \* the handlers run by the current Router::route call
    loaded,       \* the names passed to load_file by the current call
    stream,       \* the text written to the connection by the current call
    writes,       \* number of responses written to the current connection
    write_failed, \* whether the write of the current call failed
    sent,         \* what send_response returned to Router::route
    req_text,     \* the String handed to HttpRequest::from (parser runs)
    new_args      \* the arguments of HttpResponse::new (response runs)

vars ==
    <<pc, public, orders, conns, msg, read_buffer, req, resp, handler,
      loaded, stream, writes, write_failed, sent, req_text, new_args>>

(***************************************************************************)
(* Bounds of the model.                                                    *)
(***************************************************************************)
\* Connections the accept loop takes before the model stops it.
MaxConns ==
    2
\* Lines that follow the first line of a generated request text.
MaxExtra ==
    2

(***************************************************************************)
(* Characters and string literals of the source.                           *)
(***************************************************************************)
CR ==
    "\r"
LF ==
    "\n"
\* The byte 0 the read buffer is initialised with.
NUL ==
    "NUL"
\* A byte that is not valid UTF-8 (0xFF).
BAD ==
    "0xFF"
CRLF ==
    <<CR, LF>>
S_HTTP ==
    <<"H", "T", "T", "P">>
S_GET ==
    <<"G", "E", "T">>
S_POST ==
    <<"P", "O", "S", "T">>
S_HTTP11 ==
    <<"H", "T", "T", "P", "/", "1", ".", "1">>
S_api ==
    <<"a", "p", "i">>
S_shipping ==
    <<"s", "h", "i", "p", "p", "i", "n", "g">>
S_orders ==
    <<"o", "r", "d", "e", "r", "s">>
S_health ==
    <<"h", "e", "a", "l", "t", "h">>
S_index_html ==
    <<"i", "n", "d", "e", "x", ".", "h", "t", "m", "l">>
S_health_html ==
    <<"h", "e", "a", "l", "t", "h", ".", "h", "t", "m", "l">>
S_404_html ==
    <<"4", "0", "4", ".", "h", "t", "m", "l">>
S_css ==
    <<"c", "s", "s">>
S_js ==
    <<"j", "s">>
S_200 ==
    <<"2", "0", "0">>
S_400 ==
    <<"4", "0", "0">>
S_404 ==
    <<"4", "0", "4">>
S_500 ==
    <<"5", "0", "0">>
S_OK ==
    <<"O", "K">>
S_BadRequest ==
    <<"B", "a", "d", " ", "R", "e", "q", "u", "e", "s", "t">>
S_NotFound ==
    <<"N", "o", "t", " ", "F", "o", "u", "n", "d">>
S_InternalServerError ==
    <<"I", "n", "t", "e", "r", "n", "a", "l", " ", "S", "e", "r", "v", "e", "r", " ", "E", "r", "r", "o", "r">>
S_ContentType ==
    <<"C", "o", "n", "t", "e", "n", "t", "-", "T", "y", "p", "e">>
S_text_html ==
    <<"t", "e", "x", "t", "/", "h", "t", "m", "l">>
S_text_css ==
    <<"t", "e", "x", "t", "/", "c", "s", "s">>
S_text_javascript ==
    <<"t", "e", "x", "t", "/", "j", "a", "v", "a", "s", "c", "r", "i", "p", "t">>
S_application_json ==
    <<"a", "p", "p", "l", "i", "c", "a", "t", "i", "o", "n", "/", "j", "s", "o", "n", ";", "c", "h", "a", "r", "s", "e", "t", "=", "U", "T", "F", "-", "8">>
S_ContentLength ==
    <<"C", "o", "n", "t", "e", "n", "t", "-", "L", "e", "n", "g", "t", "h", ":", " ">>
S_style_css ==
    <<"s", "t", "y", "l", "e", ".", "c", "s", "s">>
S_app_js ==
    <<"a", "p", "p", ".", "j", "s">>
S_about_html ==
    <<"a", "b", "o", "u", "t", ".", "h", "t", "m", "l">>
S_page ==
    <<"p", "a", "g", "e">>
S_orders_json ==
    <<"[", "{", "\"", "o", "r", "d", "e", "r", "_", "i", "d", "\"", ":", "1", "}", "]">>
L_root ==
    <<"G", "E", "T", " ", "/", " ", "H", "T", "T", "P", "/", "1", ".", "1">>
L_health ==
    <<"G", "E", "T", " ", "/", "h", "e", "a", "l", "t", "h", " ", "H", "T", "T", "P", "/", "1", ".", "1">>
L_style ==
    <<"G", "E", "T", " ", "/", "s", "t", "y", "l", "e", ".", "c", "s", "s", " ", "H", "T", "T", "P", "/", "1", ".", "1">>
L_app ==
    <<"G", "E", "T", " ", "/", "a", "p", "p", ".", "j", "s", " ", "H", "T", "T", "P", "/", "1", ".", "1">>
L_about ==
    <<"G", "E", "T", " ", "/", "a", "b", "o", "u", "t", ".", "h", "t", "m", "l", " ", "H", "T", "T", "P", "/", "1", ".", "1">>
L_page ==
    <<"G", "E", "T", " ", "/", "p", "a", "g", "e", " ", "H", "T", "T", "P", "/", "1", ".", "1">>
L_missing ==
    <<"G", "E", "T", " ", "/", "m", "i", "s", "s", "i", "n", "g", ".", "h", "t", "m", "l", " ", "H", "T", "T", "P", "/", "1", ".", "1">>
L_nested ==
    <<"G", "E", "T", " ", "/", "c", "s", "s", "/", "s", "t", "y", "l", "e", ".", "c", "s", "s", " ", "H", "T", "T", "P", "/", "1", ".", "1">>
L_dotdot ==
    <<"G", "E", "T", " ", "/", ".", ".", "/", "a", "p", "p", ".", "j", "s", " ", "H", "T", "T", "P", "/", "1", ".", "1">>
L_api ==
    <<"G", "E", "T", " ", "/", "a", "p", "i", " ", "H", "T", "T", "P", "/", "1", ".", "1">>
L_api_slash ==
    <<"G", "E", "T", " ", "/", "a", "p", "i", "/", " ", "H", "T", "T", "P", "/", "1", ".", "1">>
L_api_shipping ==
    <<"G", "E", "T", " ", "/", "a", "p", "i", "/", "s", "h", "i", "p", "p", "i", "n", "g", " ", "H", "T", "T", "P", "/", "1", ".", "1">>
L_api_orders ==
    <<"G", "E", "T", " ", "/", "a", "p", "i", "/", "s", "h", "i", "p", "p", "i", "n", "g", "/", "o", "r", "d", "e", "r", "s", " ", "H", "T", "T", "P", "/", "1", ".", "1">>
L_api_items ==
    <<"G", "E", "T", " ", "/", "a", "p", "i", "/", "s", "h", "i", "p", "p", "i", "n", "g", "/", "i", "t", "e", "m", "s", " ", "H", "T", "T", "P", "/", "1", ".", "1">>
L_noslash ==
    <<"G", "E", "T", " ", "a", "p", "i", " ", "H", "T", "T", "P", "/", "1", ".", "1">>
L_post_orders ==
    <<"P", "O", "S", "T", " ", "/", "a", "p", "i", "/", "s", "h", "i", "p", "p", "i", "n", "g", "/", "o", "r", "d", "e", "r", "s", " ", "H", "T", "T", "P", "/", "1", ".", "1">>
L_post_noslash ==
    <<"P", "O", "S", "T", " ", "x", " ", "H", "T", "T", "P", "/", "1", ".", "1">>
L_put ==
    <<"P", "U", "T", " ", "/", " ", "H", "T", "T", "P", "/", "2", ".", "0">>
L_two_words ==
    <<"G", "E", "T", " ", "H", "T", "T", "P">>
L_greeting ==
    <<"G", "E", "T", " ", "/", "g", "r", "e", "e", "t", "i", "n", "g", " ", "H", "T", "T", "P", "/", "1", ".", "1">>
L_post_a ==
    <<"P", "O", "S", "T", " ", "/", "a", " ", "H", "T", "T", "P", "/", "1", ".", "1">>
L_get_v2 ==
    <<"G", "E", "T", " ", "/", "v", " ", "H", "T", "T", "P", "/", "2", ".", "0">>
L_host ==
    <<"H", "o", "s", "t", ":", " ", "l", "o", "c", "a", "l", "h", "o", "s", "t", ":", "3", "0", "0", "0">>
L_host_b ==
    <<"H", "o", "s", "t", ":", " ", "b">>
L_host_lower ==
    <<"h", "o", "s", "t", ":", " ", "c">>
L_accept ==
    <<"A", "c", "c", "e", "p", "t", ":">>
L_hello ==
    <<"H", "e", "l", "l", "o", " ", "W", "o", "r", "l", "d", "!">>
L_bye ==
    <<"B", "y", "e">>
L_x_http ==
    <<"X", ":", " ", "H", "T", "T", "P">>
L_body_http ==
    <<"P", "O", "S", "T", " ", "/", "b", " ", "H", "T", "T", "P", "/", "2", ".", "0">>
L_pad ==
    <<"X", "-", "P", "a", "d", ":", " ", "a", "a", "a", "a", "a", "a", "a", "a", "a", "a", "a", "a", "a", "a", "a", "a", "a", "a", "a", "a", "a", "a", "a", "a", "a", "a", "a", "a", "a", "a", "a", "a", "a", "a", "a", "a", "a", "a", "a", "a", "a", "a", "a", "a", "a", "a", "a", "a", "a", "a", "a", "a", "a", "a", "a", "a">>
L_via ==
    <<"V", "i", "a", ":", " ", "H", "T", "T", "P", "/", "1", ".", "1", " ", "p", "r", "o", "x", "y">>
S_201 ==
    <<"2", "0", "1">>
S_4040 ==
    <<"4", "0", "4", "0">>
S_X ==
    <<"X">>
S_y ==
    <<"y">>
S_Hi ==
    <<"H", "i">>

(***************************************************************************)
(* str and Vec operations the source uses.                                 *)
(***************************************************************************)
\* seq[i] with Rust's 0-based index; the callers check i < seq.len() first,
\* since an index out of bounds panics.
Idx(seq, i) ==
    seq[i + 1]

\* str::contains(pat)
Contains(s, pat) ==
    \E i \in 1..(Len(s) - Len(pat) + 1) : SubSeq(s, i, i + Len(pat) - 1) = pat

\* Position of the first occurrence of character c in s, 0 when there is none.
FirstIndex(s, c) ==
    IF \E i \in 1..Len(s) : s[i] = c
    THEN CHOOSE i \in 1..Len(s) : s[i] = c /\ \A j \in 1..(i - 1) : s[j] # c
    ELSE 0

\* str::split(c).collect(): the pieces between the occurrences of c; a text
\* without c is one piece, and so is the empty text.
RECURSIVE Split(_, _)
Split(s, c) ==
    LET i == FirstIndex(s, c)
    IN  IF i = 0
        THEN <<s>>
        ELSE <<SubSeq(s, 1, i - 1)>> \o Split(SubSeq(s, i + 1, Len(s)), c)

\* char::is_whitespace for the characters of the model.
IsWhitespace(c) ==
    c \in {" ", "\t", CR, LF}

\* str::split_whitespace().collect(): the maximal whitespace-free pieces.
RECURSIVE SplitWhitespace(_)
SplitWhitespace(s) ==
    IF Len(s) = 0
    THEN <<>>
    ELSE IF IsWhitespace(s[1])
    THEN SplitWhitespace(Tail(s))
    ELSE LET ends == {i \in 1..Len(s) : IsWhitespace(s[i])}
             n == IF ends = {}
                  THEN Len(s)
                  ELSE (CHOOSE i \in ends : \A j \in ends : i <= j) - 1
         IN  <<SubSeq(s, 1, n)>> \o SplitWhitespace(SubSeq(s, n + 1, Len(s)))

\* One line of str::lines(): a piece cut at "\n" loses one "\r" before it.
StripCR(piece) ==
    IF Len(piece) > 0 /\ piece[Len(piece)] = CR
    THEN SubSeq(piece, 1, Len(piece) - 1)
    ELSE piece

\* str::lines().collect(): the text is cut after every "\n"; each piece loses
\* its "\n" and a "\r" before it; the last piece, when the text does not end
\* with "\n", is kept as it is; no line follows a final "\n".
Lines(s) ==
    LET pieces == Split(s, LF)
        n == Len(pieces)
    IN  [i \in 1..(IF pieces[n] = <<>> THEN n - 1 ELSE n) |->
            IF i < n THEN StripCR(pieces[i]) ELSE pieces[i]]

(***************************************************************************)
(* http/src/httprequest.rs                                                 *)
(***************************************************************************)
\* impl From<&str> for Method
MethodFrom(value) ==
    IF value = S_GET THEN "GET"
    ELSE IF value = S_POST THEN "POST"
    ELSE "UNINITIALIZED"

\* impl From<&str> for Version
VersionFrom(value) ==
    IF value = S_HTTP11 THEN "V1_1" ELSE "UNINITIALIZED"

\* process_req_line: the first three whitespace-separated words; each
\* words.next().unwrap() panics when the word is missing.
process_req_line(s) ==
    LET words == SplitWhitespace(s)
    IN  IF Len(words) < 3
        THEN [panic |-> TRUE, method |-> "UNINITIALIZED", resource |-> <<>>,
              version |-> "UNINITIALIZED"]
        ELSE [panic |-> FALSE,
              method |-> MethodFrom(Idx(words, 0)),
              resource |-> Idx(words, 1),
              version |-> VersionFrom(Idx(words, 2))]

\* process_header_line: the first two items of s.split(":").
process_header_line(s) ==
    LET header_items == Split(s, ":")
    IN  [key |-> IF Len(header_items) > 0 THEN Idx(header_items, 0) ELSE <<>>,
         value |-> IF Len(header_items) > 1 THEN Idx(header_items, 1) ELSE <<>>]

\* Insert that keeps the value a key already has.
InsertKeepFirst(map, key, value) ==
    [k \in (DOMAIN map) \cup {key} |->
        IF k \in DOMAIN map THEN map[k] ELSE value]

\* HashMap::insert
Insert(map, key, value) ==
    [k \in (DOMAIN map) \cup {key} |-> IF k = key THEN value ELSE map[k]]

\* ParsedInit with the version the parser gives an unmatched version text.
ParsedInitVersionUninitialized ==
    [panic |-> FALSE, method |-> "UNINITIALIZED", version |-> "UNINITIALIZED",
     resource |-> <<>>, headers |-> <<>>, msg_body |-> <<>>]

\* The locals of HttpRequest::from before its loop.
ParsedInit ==
    [panic |-> FALSE, method |-> "UNINITIALIZED", version |-> "V1_1",
     resource |-> <<>>, headers |-> <<>>, msg_body |-> <<>>]

\* ParseLine with the body kept from the first body line instead of the last.
ParseLineKeepFirstBody(parsed, line) ==
    IF parsed.panic
    THEN parsed
    ELSE IF Contains(line, S_HTTP)
    THEN LET r == process_req_line(line)
         IN  IF r.panic
             THEN [parsed EXCEPT !.panic = TRUE]
             ELSE [parsed EXCEPT !.method = r.method, !.version = r.version,
                                 !.resource = r.resource]
    ELSE IF Contains(line, <<":">>)
    THEN LET h == process_header_line(line)
         IN  [parsed EXCEPT !.headers = Insert(parsed.headers, h.key, h.value)]
    ELSE IF Len(line) = 0 \/ parsed.msg_body # <<>>
    THEN parsed
    ELSE [parsed EXCEPT !.msg_body = line]

\* ParseLine with only the first line containing "HTTP" taken as the request
\* line, the later ones skipped.
ParseLineFirstRequestLine(parsed, line) ==
    IF parsed.panic
    THEN parsed
    ELSE IF Contains(line, S_HTTP)
    THEN IF parsed.method # "UNINITIALIZED" \/ parsed.resource # <<>>
         THEN parsed
         ELSE LET r == process_req_line(line)
              IN  IF r.panic
                  THEN [parsed EXCEPT !.panic = TRUE]
                  ELSE [parsed EXCEPT !.method = r.method,
                                      !.version = r.version,
                                      !.resource = r.resource]
    ELSE IF Contains(line, <<":">>)
    THEN LET h == process_header_line(line)
         IN  [parsed EXCEPT !.headers = Insert(parsed.headers, h.key, h.value)]
    ELSE IF Len(line) = 0
    THEN parsed
    ELSE [parsed EXCEPT !.msg_body = line]

\* One iteration of the loop of HttpRequest::from.
ParseLine(parsed, line) ==
    IF parsed.panic
    THEN parsed
    ELSE IF Contains(line, S_HTTP)
    THEN LET r == process_req_line(line)
         IN  IF r.panic
             THEN [parsed EXCEPT !.panic = TRUE]
             ELSE [parsed EXCEPT !.method = r.method, !.version = r.version,
                                 !.resource = r.resource]
    ELSE IF Contains(line, <<":">>)
    THEN LET h == process_header_line(line)
         IN  [parsed EXCEPT !.headers = Insert(parsed.headers, h.key, h.value)]
    ELSE IF Len(line) = 0
    THEN parsed
    ELSE [parsed EXCEPT !.msg_body = line]

RECURSIVE ParseLines(_, _, _)
ParseLines(lines, i, parsed) ==
    IF i > Len(lines)
    THEN parsed
    ELSE ParseLines(lines, i + 1, ParseLine(parsed, lines[i]))

\* impl From<String> for HttpRequest; panic is TRUE when a request line made
\* process_req_line panic, and no HttpRequest exists then.
HttpRequestFrom(text) ==
    ParseLines(Lines(text), 1, ParsedInit)

(***************************************************************************)
(* http/src/httpresponse.rs                                                *)
(***************************************************************************)
\* Option<T>
None ==
    [some |-> FALSE, val |-> <<>>]

Some(v) ==
    [some |-> TRUE, val |-> v]

\* impl Default for HttpResponse
HttpResponseDefault ==
    [version |-> S_HTTP11, status_code |-> S_200, status_text |-> S_OK,
     headers |-> None, body |-> None]

\* StatusText with the arm for "500" left out.
StatusTextWithout500(status_code) ==
    IF status_code = S_200 THEN S_OK
    ELSE IF status_code = S_400 THEN S_BadRequest
    ELSE S_NotFound

\* HttpResponse::new, the match that sets response.status_text.
StatusText(status_code) ==
    IF status_code = S_200 THEN S_OK
    ELSE IF status_code = S_400 THEN S_BadRequest
    ELSE IF status_code = S_404 THEN S_NotFound
    ELSE IF status_code = S_500 THEN S_InternalServerError
    ELSE S_NotFound

\* NewHeaders with the default entry put into the headers given as well.
NewHeadersAlwaysDefault(headers) ==
    IF headers.some
    THEN Some(Insert(headers.val, S_ContentType, S_text_html))
    ELSE Some(Insert(<<>>, S_ContentType, S_text_html))

\* HttpResponse::new, the match that sets response.headers.
NewHeaders(headers) ==
    IF headers.some
    THEN headers
    ELSE Some(Insert(<<>>, S_ContentType, S_text_html))

\* HttpResponse::new
HttpResponseNew(status_code, headers, body) ==
    LET code == IF status_code # S_200
                THEN status_code
                ELSE HttpResponseDefault.status_code
    IN  [version |-> HttpResponseDefault.version,
         status_code |-> code,
         status_text |-> StatusText(code),
         headers |-> NewHeaders(headers),
         body |-> body]

\* HttpResponse::body
Body(res) ==
    IF res.body.some THEN res.body.val ELSE <<>>

\* The orders in which a HashMap may iterate over its keys.
KeyOrders(map) ==
    LET keys == DOMAIN map
    IN  {o \in [1..Cardinality(keys) -> keys] :
            \A i, j \in 1..Cardinality(keys) : i # j => o[i] # o[j]}

\* HttpResponse::headers, iterating in the order `order`; self.headers
\* .as_ref().unwrap() does not panic, for new() always stores Some.
RECURSIVE HeaderString(_, _, _)
HeaderString(map, order, i) ==
    IF i > Len(order)
    THEN <<>>
    ELSE order[i] \o <<":">> \o map[order[i]] \o CRLF
         \o HeaderString(map, order, i + 1)

\* The decimal text of a usize, as format!("{}") prints it.
RECURSIVE Decimal(_)
Decimal(n) ==
    LET digit == <<"0", "1", "2", "3", "4", "5", "6", "7", "8", "9">>
    IN  IF n < 10
        THEN <<digit[n + 1]>>
        ELSE Decimal(n \div 10) \o <<digit[(n % 10) + 1]>>

\* StringFrom with the line that ends the headers left out: one "\r\n" after
\* the Content-Length line.
StringFromWithoutBlankLine(res, order) ==
    res.version \o <<" ">> \o res.status_code \o <<" ">> \o res.status_text
    \o CRLF
    \o HeaderString(res.headers.val, order, 1)
    \o S_ContentLength
    \o Decimal(IF res.body.some THEN Len(Body(res)) ELSE 0)
    \o CRLF
    \o Body(res)

\* impl From<HttpResponse> for String, with the header iteration order.
StringFrom(res, order) ==
    res.version \o <<" ">> \o res.status_code \o <<" ">> \o res.status_text
    \o CRLF
    \o HeaderString(res.headers.val, order, 1)
    \o S_ContentLength
    \o Decimal(IF res.body.some THEN Len(Body(res)) ELSE 0)
    \o CRLF \o CRLF
    \o Body(res)

\* HttpResponse::send_response: the result of write! is dropped by `let _`
\* and Ok(()) is returned whether the write failed or not.
SendResult(failed) ==
    "Ok"

(***************************************************************************)
(* httpserver/src/handlers.rs                                              *)
(***************************************************************************)
\* The text of a file of the public directory.
FileContents(file_name) ==
    <<"<">> \o file_name \o <<">">>

\* Handler::load_file: fs::read_to_string(..).ok()
load_file(file_name) ==
    IF file_name \in public THEN Some(FileContents(file_name)) ELSE None

\* What a handler hands back: panic is TRUE when it panicked (no response
\* exists then), loaded lists the names it passed to load_file.
Handled(response, names) ==
    [panic |-> FALSE, resp |-> response, loaded |-> names]

HandlerPanic(names) ==
    [panic |-> TRUE, resp |-> HttpResponseDefault, loaded |-> names]

\* NotFoundResponse built with the status code "200".
NotFoundResponseWithStatus200 ==
    Handled(HttpResponseNew(S_200, None, load_file(S_404_html)),
            <<S_404_html>>)

\* HttpResponse::new("404", None, Self::load_file("404.html"))
NotFoundResponse ==
    Handled(HttpResponseNew(S_404, None, load_file(S_404_html)),
            <<S_404_html>>)

\* WebServiceHandler::load_json and serde_json::to_string of its result:
\* both unwraps of load_json panic unless orders.json is there and valid.
\* OrdersResponse with a second header next to Content-Type.
OrdersResponseWithTwoHeaders ==
    IF orders # "valid"
    THEN HandlerPanic(<<>>)
    ELSE Handled(HttpResponseNew(S_200,
                     Some(Insert(Insert(<<>>, S_ContentType, S_application_json),
                                 S_X, S_y)),
                     Some(S_orders_json)),
                 <<>>)

OrdersResponse ==
    IF orders # "valid"
    THEN HandlerPanic(<<>>)
    ELSE Handled(HttpResponseNew(S_200,
                     Some(Insert(<<>>, S_ContentType, S_application_json)),
                     Some(S_orders_json)),
                 <<>>)

\* impl Handler for WebServiceHandler: route[2] and route[3] panic when the
\* index is out of bounds.
WebServiceHandler(request) ==
    LET route == Split(request.resource, "/")
    IN  IF Len(route) <= 2
        THEN HandlerPanic(<<>>)
        ELSE IF Idx(route, 2) = S_shipping /\ Len(route) > 2
        THEN IF Len(route) <= 3
             THEN HandlerPanic(<<>>)
             ELSE IF Idx(route, 3) = S_orders
             THEN OrdersResponse
             ELSE NotFoundResponse
        ELSE NotFoundResponse

\* Path::new(path).extension() of a path without "/": the text after the last
\* "."; None without a ".", when the only "." comes first, and for "..".
Extension(path) ==
    LET dots == {i \in 1..Len(path) : path[i] = "."}
        last == CHOOSE i \in dots : \A j \in dots : j <= i
    IN  IF dots = {} \/ path = <<".", ".">>
        THEN None
        ELSE IF last = 1
        THEN None
        ELSE Some(SubSeq(path, last + 1, Len(path)))

\* StaticPageHandler::handle, the match on the extension.
ContentTypeOf(extension) ==
    IF extension = S_css THEN S_text_css
    ELSE IF extension = S_js THEN S_text_javascript
    ELSE S_text_html

\* impl Handler for StaticPageHandler: route[1] panics when the path has no
\* "/", extension().unwrap() panics when the file name has no extension.
\* StaticPageHandler with the whole path after its leading "/" as the file
\* name, instead of its first segment.
StaticPageHandlerWholePath(request) ==
    LET route == Split(request.resource, "/")
        path == SubSeq(request.resource, Len(Idx(route, 0)) + 2,
                       Len(request.resource))
    IN  IF Len(route) <= 1
        THEN HandlerPanic(<<>>)
        ELSE IF path = <<>>
        THEN Handled(HttpResponseNew(S_200, None, load_file(S_index_html)),
                     <<S_index_html>>)
        ELSE IF path = S_health
        THEN Handled(HttpResponseNew(S_200, None, load_file(S_health_html)),
                     <<S_health_html>>)
        ELSE IF load_file(path).some
        THEN IF ~Extension(path).some
             THEN HandlerPanic(<<path>>)
             ELSE Handled(HttpResponseNew(S_200,
                              Some(Insert(<<>>, S_ContentType,
                                          ContentTypeOf(Extension(path).val))),
                              Some(load_file(path).val)),
                          <<path>>)
        ELSE [NotFoundResponse EXCEPT !.loaded = <<path>> \o @]

StaticPageHandler(request) ==
    LET route == Split(request.resource, "/")
        path == Idx(route, 1)
    IN  IF Len(route) <= 1
        THEN HandlerPanic(<<>>)
        ELSE IF path = <<>>
        THEN Handled(HttpResponseNew(S_200, None, load_file(S_index_html)),
                     <<S_index_html>>)
        ELSE IF path = S_health
        THEN Handled(HttpResponseNew(S_200, None, load_file(S_health_html)),
                     <<S_health_html>>)
        ELSE IF load_file(path).some
        THEN IF ~Extension(path).some
             THEN HandlerPanic(<<path>>)
             ELSE Handled(HttpResponseNew(S_200,
                              Some(Insert(<<>>, S_ContentType,
                                          ContentTypeOf(Extension(path).val))),
                              Some(load_file(path).val)),
                          <<path>>)
        ELSE [NotFoundResponse EXCEPT !.loaded = <<path>> \o @]

\* impl Handler for PageNotFoundHandler
PageNotFoundHandler(request) ==
    NotFoundResponse

(***************************************************************************)
(* httpserver/src/router.rs                                                *)
(***************************************************************************)
\* Dispatch without the match on the method: every request is routed as a
\* GET request is.
DispatchAnyMethod(request) ==
    LET route == Split(request.resource, "/")
    IN  IF Len(route) <= 1
        THEN [handler |-> <<>>, out |-> HandlerPanic(<<>>)]
        ELSE IF Idx(route, 1) = S_api
        THEN [handler |-> <<"WebServiceHandler">>,
              out |-> WebServiceHandler(request)]
        ELSE [handler |-> <<"StaticPageHandler">>,
              out |-> StaticPageHandler(request)]

\* Router::route up to the response: the handler it selects and what that
\* handler hands back; route[1] panics when the path holds no "/".
Dispatch(request) ==
    IF request.method = "GET"
    THEN LET route == Split(request.resource, "/")
         IN  IF Len(route) <= 1
             THEN [handler |-> <<>>, out |-> HandlerPanic(<<>>)]
             ELSE IF Idx(route, 1) = S_api
             THEN [handler |-> <<"WebServiceHandler">>,
                   out |-> WebServiceHandler(request)]
             ELSE [handler |-> <<"StaticPageHandler">>,
                   out |-> StaticPageHandler(request)]
    ELSE [handler |-> <<"PageNotFoundHandler">>,
          out |-> PageNotFoundHandler(request)]

(***************************************************************************)
(* The inputs of the model.                                                *)
(***************************************************************************)
\* All sequences over S of length at most n.
SeqsUpTo(S, n) ==
    UNION {[1..k -> S] : k \in 0..n}

\* The lines, each followed by "\r\n".
RECURSIVE JoinLines(_)
JoinLines(lines) ==
    IF Len(lines) = 0
    THEN <<>>
    ELSE Head(lines) \o CRLF \o JoinLines(Tail(lines))

\* The files a public directory may hold.
AllFiles ==
    {S_index_html, S_health_html, S_404_html, S_style_css, S_app_js,
     S_about_html, S_page}

\* The states of the public and data directories the server runs in.
Environments ==
    [public : {AllFiles, AllFiles \ {S_404_html}, {S_404_html}, {}},
     orders : {"valid", "invalid", "missing"}]

\* First lines of the texts clients send.
FirstLines ==
    {L_root, L_health, L_style, L_app, L_about, L_page, L_missing, L_nested,
     L_api, L_api_slash, L_api_shipping, L_api_orders, L_api_items,
     L_noslash, L_post_orders, L_post_noslash, L_put, L_two_words, L_hello,
     L_dotdot}

\* Lines that may follow the first line of a text a client sends.
ExtraLines ==
    {L_host, <<>>, L_body_http}

\* A text of exactly 90 bytes: a request line and one header line.
LongMessage ==
    JoinLines(<<L_style, L_pad>>)

\* The byte sequences a client may have sent when the server reads: texts of lines, nothing at all, and
\* bytes that are not UTF-8, and a text of 90 bytes with and without more
\* bytes after it.
Messages ==
    {JoinLines(<<f>> \o e) : f \in FirstLines, e \in SeqsUpTo(ExtraLines, MaxExtra)}
    \cup {<<>>, L_root \o <<BAD>> \o CRLF, LongMessage,
          LongMessage \o L_post_noslash \o CRLF}

\* First lines and following lines of the texts handed to the parser alone.
ParseFirstLines ==
    {L_greeting, L_post_a, L_get_v2, L_put, L_two_words, L_hello, L_host}

ParseExtraLines ==
    {L_host, L_host_b, L_host_lower, L_accept, <<>>, L_hello, L_bye,
     L_x_http, L_body_http, L_via}

\* The texts handed to HttpRequest::from: lines joined by "\r\n", with or
\* without the final line ending.
ParseTexts ==
    LET full == {JoinLines(<<f>> \o e) :
                    f \in ParseFirstLines, e \in SeqsUpTo(ParseExtraLines, MaxExtra)}
    IN  full \cup {SubSeq(t, 1, Len(t) - 2) : t \in full}

\* The arguments HttpResponse::new is called with.
NewArgs ==
    [status_code : {S_200, S_400, S_404, S_500, S_201, S_4040, <<>>},
     headers : {None, Some(<<>>),
                Some(Insert(<<>>, S_ContentType, S_text_css)),
                Some(Insert(Insert(<<>>, S_ContentType, S_application_json),
                            S_X, S_y))},
     body : {None, Some(<<>>), Some(S_Hi), Some(L_hello)}]

(***************************************************************************)
(* httpserver/src/server.rs: Server::run                                   *)
(***************************************************************************)
\* let mut read_buffer = [0; 90]
BufLen ==
    90

ZeroBuffer ==
    [i \in 1..BufLen |-> NUL]

\* A buffer that takes all the bytes the client sent, however many.
ReadWholeMessage(m) ==
    [i \in 1..(IF Len(m) > BufLen THEN Len(m) ELSE BufLen) |->
        IF i <= Len(m) THEN m[i] ELSE NUL]

\* read_buffer after stream.read(&mut read_buffer) when the client sent m:
\* the first bytes of m, at most BufLen of them, over the zeroes.
ReadInto(m) ==
    [i \in 1..BufLen |-> IF i <= Len(m) THEN m[i] ELSE NUL]

\* The process ended by a panic: the accept loop runs on the main thread.
Panicked ==
    pc \in {"panic:read", "panic:from_utf8", "panic:parse", "panic:route"}

\* The values of the state that belongs to one connection, before its read.
FreshConnection ==
    /\ msg' = <<>>
    /\ read_buffer' = ZeroBuffer
    /\ req' = ParsedInit
    /\ resp' = HttpResponseDefault
    /\ handler' = <<>>
    /\ loaded' = <<>>
    /\ stream' = <<>>
    /\ writes' = 0
    /\ write_failed' = FALSE
    /\ sent' = "none"

\* Accept taking the next connection while the current one is still being
\* handled, as a server with one thread per connection would.
AcceptWhileBusy ==
    /\ pc \in {"listen", "read", "parse", "route"}
    /\ conns < MaxConns
    /\ conns' = conns + 1
    /\ FreshConnection
    /\ pc' = "read"
    /\ UNCHANGED <<public, orders, req_text, new_args>>

\* connection_listener.incoming() yields the next connection.
Accept ==
    /\ pc = "listen"
    /\ conns < MaxConns
    /\ conns' = conns + 1
    /\ FreshConnection
    /\ pc' = "read"
    /\ UNCHANGED <<public, orders, req_text, new_args>>

\* stream.read(&mut read_buffer).unwrap(): the first bytes of what the client
\* sent, at most BufLen of them, over the zeroes; an Err panics.
Read ==
    /\ pc = "read"
    /\ \/ /\ pc' = "panic:read"
          /\ UNCHANGED <<msg, read_buffer>>
       \/ \E m \in Messages :
             /\ msg' = m
             /\ read_buffer' = ReadInto(m)
             /\ pc' = "parse"
    /\ UNCHANGED <<public, orders, conns, req, resp, handler, loaded,
                   stream, writes, write_failed, sent, req_text, new_args>>

\* String::from_utf8(read_buffer.to_vec()).unwrap().into()
Parse ==
    /\ pc = "parse"
    /\ IF \E i \in 1..BufLen : read_buffer[i] = BAD
       THEN pc' = "panic:from_utf8" /\ UNCHANGED req
       ELSE /\ req' = HttpRequestFrom(read_buffer)
            /\ pc' = IF req'.panic THEN "panic:parse" ELSE "route"
    /\ UNCHANGED <<public, orders, conns, msg, read_buffer, resp, handler,
                   loaded, stream, writes, write_failed, sent, req_text,
                   new_args>>

\* Router::route(req, &mut stream): the selected handler runs, and
\* send_response writes its response; a failed write leaves a part of the
\* text on the stream.
Route ==
    /\ pc = "route"
    /\ LET d == Dispatch(req)
       IN  /\ handler' = d.handler
           /\ loaded' = d.out.loaded
           /\ IF d.out.panic
              THEN /\ pc' = "panic:route"
                   /\ UNCHANGED <<resp, stream, writes, write_failed, sent>>
              ELSE /\ resp' = d.out.resp
                   /\ \E order \in KeyOrders(d.out.resp.headers.val),
                         failed \in BOOLEAN :
                         LET text == StringFrom(d.out.resp, order)
                         IN  /\ stream' = IF failed
                                          THEN SubSeq(text, 1, Len(text) \div 2)
                                          ELSE text
                             /\ writes' = IF failed THEN writes ELSE writes + 1
                             /\ write_failed' = failed
                             /\ sent' = SendResult(failed)
                   /\ pc' = "listen"
    /\ UNCHANGED <<public, orders, conns, msg, read_buffer, req, req_text,
                   new_args>>

Init ==
    /\ pc = "listen"
    /\ \E e \in Environments : public = e.public /\ orders = e.orders
    /\ conns = 0
    /\ msg = <<>>
    /\ read_buffer = <<>>
    /\ req = ParsedInit
    /\ resp = HttpResponseDefault
    /\ handler = <<>>
    /\ loaded = <<>>
    /\ stream = <<>>
    /\ writes = 0
    /\ write_failed = FALSE
    /\ sent = "none"
    /\ req_text = <<>>
    /\ new_args = [status_code |-> S_200, headers |-> None, body |-> None]

Next ==
    \/ Accept
    \/ Read
    \/ Parse
    \/ Route

Spec ==
    Init /\ [][Next]_vars

(***************************************************************************)
(* The parser alone: HttpRequest::from applied to a text.                  *)
(***************************************************************************)
InitParse ==
    /\ pc = "from"
    /\ req_text \in ParseTexts
    /\ public = {}
    /\ orders = "missing"
    /\ conns = 0
    /\ msg = <<>>
    /\ read_buffer = <<>>
    /\ req = ParsedInit
    /\ resp = HttpResponseDefault
    /\ handler = <<>>
    /\ loaded = <<>>
    /\ stream = <<>>
    /\ writes = 0
    /\ write_failed = FALSE
    /\ sent = "none"
    /\ new_args = [status_code |-> S_200, headers |-> None, body |-> None]

\* let req: HttpRequest = s.into()
FromString ==
    /\ pc = "from"
    /\ req' = HttpRequestFrom(req_text)
    /\ pc' = IF req'.panic THEN "panic:parse" ELSE "parsed"
    /\ UNCHANGED <<public, orders, conns, msg, read_buffer, resp, handler,
                   loaded, stream, writes, write_failed, sent, req_text,
                   new_args>>

NextParse ==
    FromString

SpecParse ==
    InitParse /\ [][NextParse]_vars

(***************************************************************************)
(* The response model alone: HttpResponse::new applied to its arguments,   *)
(* and the response serialized.                                            *)
(***************************************************************************)
InitResponse ==
    /\ pc = "new"
    /\ new_args \in NewArgs
    /\ public = {}
    /\ orders = "missing"
    /\ conns = 0
    /\ msg = <<>>
    /\ read_buffer = <<>>
    /\ req = ParsedInit
    /\ resp = HttpResponseDefault
    /\ handler = <<>>
    /\ loaded = <<>>
    /\ stream = <<>>
    /\ writes = 0
    /\ write_failed = FALSE
    /\ sent = "none"
    /\ req_text = <<>>

\* HttpResponse::new(status_code, headers, body)
New ==
    /\ pc = "new"
    /\ resp' = HttpResponseNew(new_args.status_code, new_args.headers,
                               new_args.body)
    /\ pc' = "built"
    /\ UNCHANGED <<public, orders, conns, msg, read_buffer, req, handler,
                   loaded, stream, writes, write_failed, sent, req_text,
                   new_args>>

\* let text: String = response.into(), the HashMap iterating in some order.
Serialize ==
    /\ pc = "built"
    /\ \E order \in KeyOrders(resp.headers.val) :
          stream' = StringFrom(resp, order)
    /\ pc' = "serialized"
    /\ UNCHANGED <<public, orders, conns, msg, read_buffer, req, resp,
                   handler, loaded, writes, write_failed, sent, req_text,
                   new_args>>

NextResponse ==
    \/ New
    \/ Serialize

SpecResponse ==
    InitResponse /\ [][NextResponse]_vars
W_404_status_line ==
    <<"H", "T", "T", "P", "/", "1", ".", "1", " ", "4", "0", "4", " ", "N", "o", "t", " ", "F", "o", "u", "n", "d", CR, LF>>
W_404_no_body ==
    <<"H", "T", "T", "P", "/", "1", ".", "1", " ", "4", "0", "4", " ", "N", "o", "t", " ", "F", "o", "u", "n", "d", CR, LF, "C", "o", "n", "t", "e", "n", "t", "-", "T", "y", "p", "e", ":", "t", "e", "x", "t", "/", "h", "t", "m", "l", CR, LF, "C", "o", "n", "t", "e", "n", "t", "-", "L", "e", "n", "g", "t", "h", ":", " ", "0", CR, LF, CR, LF>>

(***************************************************************************)
(* The claims.                                                             *)
(***************************************************************************)
\* Router::route was called for the current connection: it returned, and the
\* loop is back at incoming(), or it panicked.
RouteCalled ==
    pc = "panic:route" \/ (pc = "listen" /\ conns > 0)

\* Router::route returned for the current connection.
RouteReturned ==
    pc = "listen" /\ conns > 0

\* Segment i (0-based, as in p.split("/")) of the path exists and is s.
SegmentIs(path, i, s) ==
    LET route == Split(path, "/")
    IN  Len(route) > i /\ Idx(route, i) = s

\* The handler the decision table of the router names for a request.
TableHandler(request) ==
    IF request.method = "GET"
    THEN IF SegmentIs(request.resource, 1, S_api)
         THEN "WebServiceHandler"
         ELSE "StaticPageHandler"
    ELSE "PageNotFoundHandler"

\* C1: for every parsed request Router::route runs exactly the one handler
\* its decision table names (GET with first segment "api": WebServiceHandler,
\* any other GET: StaticPageHandler, any other method: PageNotFoundHandler)
\* and writes exactly one serialized response to the output sink.
C1_RouteDecisionTable ==
    RouteCalled =>
        /\ handler = <<TableHandler(req)>>
        /\ pc = "listen"
        /\ (~write_failed => writes = 1 /\ stream # <<>>)

\* C2: whatever bytes were read from a connection and whatever the public
\* and data directories hold, Server::run handles the connection without
\* panicking and goes on to the next one.
C2_NoRequestCrashesServer ==
    pc \notin {"panic:from_utf8", "panic:parse", "panic:route"}

\* A line the parser takes for a header line.
IsHeaderLine(line) ==
    ~Contains(line, S_HTTP) /\ Contains(line, <<":">>)

\* The text of a header line before its first ":" and the whole text after it.
KeyOf(line) ==
    SubSeq(line, 1, FirstIndex(line, ":") - 1)

RestOf(line) ==
    SubSeq(line, FirstIndex(line, ":") + 1, Len(line))

\* C3: a header line is split at its first ":" only: the value stored for
\* its key is the whole text after the first colon, later colons included
\* (for a key given several times, the text of the last of its lines).
C3_HeaderSplitAtFirstColon ==
    pc = "parsed" =>
        LET lines == Lines(req_text)
        IN  \A i \in 1..Len(lines) :
                (/\ IsHeaderLine(lines[i])
                 /\ \A j \in (i + 1)..Len(lines) :
                        IsHeaderLine(lines[j]) => KeyOf(lines[j]) # KeyOf(lines[i]))
                => /\ KeyOf(lines[i]) \in DOMAIN req.headers
                   /\ req.headers[KeyOf(lines[i])] = RestOf(lines[i])

\* A line the parser takes for a body line.
IsBodyLine(line) ==
    Len(line) > 0 /\ ~Contains(line, S_HTTP) /\ ~Contains(line, <<":">>)

\* The body lines of a text, in the order of the text.
BodyLines(text) ==
    SelectSeq(Lines(text), IsBodyLine)

\* C4 (as claimed): msg_body is the first body line of the text, the later
\* ones are dropped, and it is empty when the text has no body line.
C4_BodyIsFirstBodyLine ==
    pc = "parsed" =>
        req.msg_body = IF BodyLines(req_text) = <<>>
                       THEN <<>>
                       ELSE Head(BodyLines(req_text))

\* C4 (amended): for every text HttpRequest::from parses, msg_body is the
\* last line that is non-empty and is neither a request line nor a header
\* line: each such line overwrites the one before it; msg_body is empty when
\* the text has no such line.
C4_BodyIsLastBodyLine ==
    pc = "parsed" =>
        req.msg_body = IF BodyLines(req_text) = <<>>
                       THEN <<>>
                       ELSE BodyLines(req_text)[Len(BodyLines(req_text))]

\* C4, its case: a parsed text with two different body lines, whose second
\* one is the msg_body.
C4_TwoBodyLinesParsed ==
    /\ pc = "parsed"
    /\ Len(BodyLines(req_text)) = 2
    /\ BodyLines(req_text)[1] # BodyLines(req_text)[2]
    /\ req.msg_body = BodyLines(req_text)[2]

\* The words of a line between single spaces.
Words(line) ==
    Split(line, " ")

\* A text of the form "<METHOD> <PATH> HTTP/1.1\r\n<headers>\r\n\r\n<body>":
\* a first line of METHOD in {GET, POST}, a whitespace-free PATH and HTTP/1.1,
\* then lines holding a ":" up to an empty line, then any body.
IsValidRequestText(text) ==
    LET lines == Lines(text)
    IN  /\ Len(lines) >= 2
        /\ Len(Words(lines[1])) = 3
        /\ Words(lines[1])[1] \in {S_GET, S_POST}
        /\ Words(lines[1])[2] # <<>>
        /\ Words(lines[1])[3] = S_HTTP11
        /\ \E b \in 2..Len(lines) :
              /\ lines[b] = <<>>
              /\ \A h \in 2..(b - 1) : Contains(lines[h], <<":">>)

\* C5: parsing a valid request text yields exactly its method, its path and
\* V1_1, whatever its headers and its body contain.
C5_ValidTextRoundTrip ==
    (pc \in {"parsed", "panic:parse"} /\ IsValidRequestText(req_text)) =>
        LET first == Words(Lines(req_text)[1])
        IN  /\ pc = "parsed"
            /\ req.method = (IF first[1] = S_GET THEN "GET" ELSE "POST")
            /\ req.resource = first[2]
            /\ req.version = "V1_1"

\* C6: WebServiceHandler::handle answers 200 with the single header
\* Content-Type: application/json;charset=UTF-8 exactly when segment 2 of the
\* path is "shipping" and segment 3 is "orders" (orders.json being there),
\* and answers every other path under "api" with 404 and the 404.html
\* content.
C6_WebServiceHandlerTable ==
    (RouteCalled /\ handler = <<"WebServiceHandler">>) =>
        IF SegmentIs(req.resource, 2, S_shipping)
           /\ SegmentIs(req.resource, 3, S_orders)
        THEN orders = "valid" =>
                /\ pc = "listen"
                /\ resp.status_code = S_200
                /\ resp.headers = Some(Insert(<<>>, S_ContentType, S_application_json))
        ELSE /\ pc = "listen"
             /\ resp.status_code = S_404
             /\ resp.body = load_file(S_404_html)

\* C7: send_response hands a failed write back to its caller: it returns an
\* error whenever the write failed, and Ok only when the whole serialized
\* response was written.
C7_WriteFailureSurfaced ==
    RouteReturned =>
        /\ write_failed => sent = "Err"
        /\ sent = "Ok" => \E order \in KeyOrders(resp.headers.val) :
                              stream = StringFrom(resp, order)

\* C8: routing a request whose method is not GET answers 404 Not Found
\* whatever the path is (empty, without "/", under /api), with the 404.html
\* content as body, and with no body when 404.html does not exist; the
\* response is what the write puts on the connection.
C8_NonGetAnswers404 ==
    (RouteCalled /\ req.method # "GET") =>
        /\ pc = "listen"
        /\ resp.status_code = S_404
        /\ resp.status_text = S_NotFound
        /\ resp.body = (IF S_404_html \in public
                        THEN Some(FileContents(S_404_html))
                        ELSE None)
        /\ ~write_failed =>
              /\ writes = 1
              /\ SubSeq(stream, 1, Len(W_404_status_line)) = W_404_status_line
              /\ S_404_html \notin public => stream = W_404_no_body

\* C8, its case: a POST request whose path has no "/" was routed while
\* 404.html does not exist, and the 404 response without body was written.
C8_PostWithoutSlashRouted ==
    /\ RouteReturned
    /\ req.method = "POST"
    /\ req.resource = <<"x">>
    /\ S_404_html \notin public
    /\ ~write_failed
    /\ stream = W_404_no_body

\* C9: HttpResponse::new keeps the code it is given and HTTP/1.1, and takes
\* the status text from the table: 200 OK, 400 Bad Request, 404 Not Found,
\* 500 Internal Server Error, Not Found for every other code.
C9_StatusTextTable ==
    pc = "built" =>
        /\ resp.status_code = new_args.status_code
        /\ resp.version = S_HTTP11
        /\ new_args.status_code = S_200 => resp.status_text = S_OK
        /\ new_args.status_code = S_400 => resp.status_text = S_BadRequest
        /\ new_args.status_code = S_404 => resp.status_text = S_NotFound
        /\ new_args.status_code = S_500 => resp.status_text = S_InternalServerError
        /\ new_args.status_code \notin {S_200, S_400, S_404, S_500}
              => resp.status_text = S_NotFound

\* C9, its case: new was called with "201", a code the table does not hold,
\* and gave it the text Not Found.
C9_UnlistedCodeBuilt ==
    /\ pc = "built"
    /\ new_args.status_code = S_201
    /\ resp.status_code = S_201
    /\ resp.status_text = S_NotFound

\* C10: HttpResponse::new with headers None stores exactly the mapping
\* {Content-Type: text/html}; with Some(h) it stores h as it is and adds no
\* entry; the body is stored as given.
C10_DefaultHeadersOnlyForNone ==
    pc = "built" =>
        /\ resp.body = new_args.body
        /\ resp.headers.some
        /\ IF new_args.headers.some
           THEN /\ DOMAIN resp.headers.val = DOMAIN new_args.headers.val
                /\ \A k \in DOMAIN resp.headers.val :
                      resp.headers.val[k] = new_args.headers.val[k]
           ELSE /\ DOMAIN resp.headers.val = {S_ContentType}
                /\ resp.headers.val[S_ContentType] = S_text_html

\* C10, its case: new was called with Some of an empty mapping and a body,
\* and stored the empty mapping.
C10_EmptyHeadersKept ==
    /\ pc = "built"
    /\ new_args.headers.some
    /\ DOMAIN new_args.headers.val = {}
    /\ new_args.body.some
    /\ DOMAIN resp.headers.val = {}

\* The number a decimal text stands for.
RECURSIVE ParseDecimal(_)
ParseDecimal(digits) ==
    LET value(c) == CHOOSE n \in 0..9 :
                        c = <<"0", "1", "2", "3", "4", "5", "6", "7", "8", "9">>[n + 1]
    IN  IF Len(digits) = 0
        THEN 0
        ELSE 10 * ParseDecimal(SubSeq(digits, 1, Len(digits) - 1))
             + value(digits[Len(digits)])

\* s ends with the text suffix.
EndsWith(s, suffix) ==
    /\ Len(s) >= Len(suffix)
    /\ SubSeq(s, Len(s) - Len(suffix) + 1, Len(s)) = suffix

\* C11: the text of a response is "{version} {status_code} {status_text}\r\n",
\* one "{key}:{value}\r\n" per header, "Content-Length: {len}\r\n\r\n" and the
\* body, where len is the length of the body text that follows, and is 0
\* with nothing after the blank line when there is no body.
C11_WireFormat ==
    pc = "serialized" =>
        LET lines == Lines(stream)
            map == resp.headers.val
            n == Cardinality(DOMAIN map)
            length == SubSeq(lines[n + 2], Len(S_ContentLength) + 1,
                             Len(lines[n + 2]))
        IN  /\ \A i \in 1..Len(stream) :
                  stream[i] = LF => i > 1 /\ stream[i - 1] = CR
            /\ Len(lines) >= n + 3
            /\ lines[1] = resp.version \o <<" ">> \o resp.status_code
                          \o <<" ">> \o resp.status_text
            /\ {lines[i] : i \in 2..(n + 1)}
                  = {k \o <<":">> \o map[k] : k \in DOMAIN map}
            /\ SubSeq(lines[n + 2], 1, Len(S_ContentLength)) = S_ContentLength
            /\ Len(length) > 0
            /\ \A i \in 1..Len(length) :
                  length[i] \in {"0", "1", "2", "3", "4", "5", "6", "7", "8", "9"}
            /\ lines[n + 3] = <<>>
            /\ EndsWith(stream, CRLF \o CRLF \o Body(resp))
            /\ IF resp.body.some /\ resp.body.val # <<>>
               THEN /\ Len(lines) = n + 4
                    /\ lines[n + 4] = resp.body.val
                    /\ ParseDecimal(length) = Len(resp.body.val)
               ELSE /\ Len(lines) = n + 3
                    /\ length = <<"0">>

\* C11, its case: a response with two headers and no body was serialized,
\* and its text ends with Content-Length: 0 and the blank line.
C11_NoBodySerialized ==
    /\ pc = "serialized"
    /\ ~resp.body.some
    /\ Cardinality(DOMAIN resp.headers.val) = 2
    /\ EndsWith(stream, S_ContentLength \o <<"0">> \o CRLF \o CRLF)

\* Router::route was called with a GET request whose path has a first
\* segment: the one StaticPageHandler matches on, unless it is "api".
FirstSegment(request) ==
    Idx(Split(request.resource, "/"), 1)

GetWithSegmentRouted ==
    /\ RouteCalled
    /\ req.method = "GET"
    /\ Len(Split(req.resource, "/")) > 1

\* C12: a GET request whose first path segment is none of "", "health" and
\* "api" and names no file of the public directory is answered 404, with the
\* 404.html content as body, and with an empty body when 404.html is absent
\* as well.
C12_MissingFileAnswers404 ==
    (/\ GetWithSegmentRouted
     /\ FirstSegment(req) \notin {<<>>, S_health, S_api}
     /\ FirstSegment(req) \notin public) =>
        /\ pc = "listen"
        /\ handler = <<"StaticPageHandler">>
        /\ resp.status_code = S_404
        /\ resp.status_text = S_NotFound
        /\ resp.body = (IF S_404_html \in public
                        THEN Some(FileContents(S_404_html))
                        ELSE None)
        /\ (~write_failed /\ S_404_html \notin public) => stream = W_404_no_body

\* C12, its case: GET /missing.html was routed while the public directory
\* holds neither that file nor 404.html, and 404 without body was written.
C12_MissingFileRouted ==
    /\ RouteReturned
    /\ req.method = "GET"
    /\ req.resource = <<"/">> \o <<"m", "i", "s", "s", "i", "n", "g">>
                      \o <<".", "h", "t", "m", "l">>
    /\ S_404_html \notin public
    /\ resp.status_code = S_404
    /\ ~resp.body.some
    /\ stream = W_404_no_body

\* C13: a GET request whose first path segment names a file of the public
\* directory is answered 200 with the contents of the file and the
\* Content-Type of its extension: text/css for css, text/javascript for js,
\* text/html for anything else, a name without extension included.
C13_ExistingFileServed ==
    (GetWithSegmentRouted /\ FirstSegment(req) \in public) =>
        /\ pc = "listen"
        /\ resp.status_code = S_200
        /\ resp.body = Some(FileContents(FirstSegment(req)))
        /\ resp.headers =
              Some(Insert(<<>>, S_ContentType,
                          IF EndsWith(FirstSegment(req), <<".">> \o S_css)
                          THEN S_text_css
                          ELSE IF EndsWith(FirstSegment(req), <<".">> \o S_js)
                          THEN S_text_javascript
                          ELSE S_text_html))

\* The header lines of a text, in the order of the text.
HeaderLines(text) ==
    SelectSeq(Lines(text), IsHeaderLine)

\* The value the parser takes from a header line: the text after its first
\* ":", up to its second ":" when it has one.
ValueOf(line) ==
    LET rest == RestOf(line)
    IN  IF FirstIndex(rest, ":") = 0
        THEN rest
        ELSE SubSeq(rest, 1, FirstIndex(rest, ":") - 1)

\* C14: the parsed header mapping holds one entry for each key of the header
\* lines, spelled as in the text (keys that differ in letter case are
\* different entries), and the value of a key given on several lines is the
\* one of the last of them.
C14_LastDuplicateHeaderWins ==
    pc = "parsed" =>
        LET hl == HeaderLines(req_text)
        IN  /\ DOMAIN req.headers = {KeyOf(hl[i]) : i \in 1..Len(hl)}
            /\ \A i \in 1..Len(hl) :
                  (\A j \in (i + 1)..Len(hl) : KeyOf(hl[j]) # KeyOf(hl[i]))
                  => req.headers[KeyOf(hl[i])] = ValueOf(hl[i])

\* C14, its case: a parsed text with two Host lines of different values and
\* a host line; Host has the value of the second line, host its own entry.
C14_DuplicateHostParsed ==
    /\ pc = "parsed"
    /\ HeaderLines(req_text) = <<L_host, L_host_b, L_host_lower>>
    /\ DOMAIN req.headers = {KeyOf(L_host), KeyOf(L_host_lower)}
    /\ KeyOf(L_host) # KeyOf(L_host_lower)
    /\ req.headers[KeyOf(L_host)] = RestOf(L_host_b)
    /\ req.headers[KeyOf(L_host_lower)] = RestOf(L_host_lower)

\* HttpRequest::from was called on the text of the current connection.
ParseCalled ==
    pc \in {"panic:parse", "route"} \/ RouteCalled

\* No line of the text of the current connection contains "HTTP".
NoRequestLine ==
    \A i \in 1..Len(Lines(read_buffer)) : ~Contains(Lines(read_buffer)[i], S_HTTP)

\* C15: a text in which no line contains "HTTP" parses without error to
\* method UNINITIALIZED, version V1_1 (the default) and Path(""), and routing
\* that request gives the 404 response of PageNotFoundHandler.
C15_NoRequestLineDefaults ==
    (ParseCalled /\ NoRequestLine) =>
        /\ pc # "panic:parse"
        /\ req.method = "UNINITIALIZED"
        /\ req.version = "V1_1"
        /\ req.resource = <<>>
        /\ RouteCalled =>
              /\ pc = "listen"
              /\ handler = <<"PageNotFoundHandler">>
              /\ resp.status_code = S_404
              /\ resp.status_text = S_NotFound
              /\ resp.body = (IF S_404_html \in public
                              THEN Some(FileContents(S_404_html))
                              ELSE None)

\* C15, its case: the text "Hello World!", "Host: localhost:3000" was parsed
\* and routed, and PageNotFoundHandler answered 404.
C15_TextWithoutRequestLineRouted ==
    /\ RouteReturned
    /\ msg = JoinLines(<<L_hello, L_host>>)
    /\ NoRequestLine
    /\ req.method = "UNINITIALIZED"
    /\ req.version = "V1_1"
    /\ DOMAIN req.headers = {KeyOf(L_host)}
    /\ handler = <<"PageNotFoundHandler">>
    /\ resp.status_code = S_404

\* The steps Server::run takes, in the order of its loop body.
LoopOrder ==
    {<<"listen", "read">>,
     <<"read", "parse">>, <<"read", "panic:read">>,
     <<"parse", "route">>, <<"parse", "panic:from_utf8">>,
     <<"parse", "panic:parse">>,
     <<"route", "listen">>, <<"route", "panic:route">>}

\* C16: Server::run handles one connection at a time, in accept order: a
\* connection is taken only when the loop is at incoming() and the read, the
\* parse, the route and the send_response of the connection before it are
\* over; the steps of a connection follow the loop body; and no connection
\* gets more than one response.
C16_OneConnectionAtATime ==
    [][/\ pc' # pc => <<pc, pc'>> \in LoopOrder
       /\ conns' # conns =>
             /\ conns' = conns + 1
             /\ pc = "listen" /\ pc' = "read"
             /\ conns > 0 => (handler # <<>> /\ sent = "Ok")
             /\ writes' = 0 /\ stream' = <<>>
       /\ (pc = "read" /\ pc' = "parse") => (writes = 0 /\ stream = <<>>)
       /\ writes' <= 1]_vars

\* C16, its case: a second connection was accepted, read, parsed, routed and
\* answered after the first one.
C16_SecondConnectionAnswered ==
    /\ conns = 2
    /\ RouteReturned
    /\ writes = 1
    /\ stream # <<>>

\* stream.read returned for the current connection.
ReadReturned ==
    pc \in {"parse", "panic:from_utf8"} \/ ParseCalled

\* Two byte sequences agree on their first 90 bytes (on all of them when
\* they are shorter).
SameFirstBytes(a, b) ==
    LET n(m) == IF Len(m) > BufLen THEN BufLen ELSE Len(m)
    IN  SubSeq(a, 1, n(a)) = SubSeq(b, 1, n(b))

\* What the server does with the bytes m of a client, after a successful read
\* of valid UTF-8.
OutcomeOf(m) ==
    LET r == HttpRequestFrom(ReadInto(m))
    IN  IF r.panic
        THEN [pc |-> "panic:parse", resp |-> HttpResponseDefault]
        ELSE LET d == Dispatch(r)
             IN  IF d.out.panic
                 THEN [pc |-> "panic:route", resp |-> HttpResponseDefault]
                 ELSE [pc |-> "listen", resp |-> d.out.resp]

\* C17: the text parsed for a connection is always 90 bytes long, the first
\* bytes the client sent followed by zeroes; whatever the client sent after
\* its first 90 bytes does not change the outcome (the same response, or the
\* same panic); and when fewer than 90 bytes arrive, ending a line, the run of
\* zeroes is the last line the parser sees and becomes the body of the request.
C17_FixedBufferParsed ==
    /\ ReadReturned =>
          /\ Len(read_buffer) = BufLen
          /\ \A i \in 1..BufLen :
                read_buffer[i] = IF i <= Len(msg) THEN msg[i] ELSE NUL
    /\ (ParseCalled /\ pc # "route") =>
          \A m \in Messages :
             (SameFirstBytes(m, msg) /\ m # msg) =>
                /\ OutcomeOf(m).pc = pc
                /\ pc = "listen" => OutcomeOf(m).resp = resp
    /\ (ParseCalled /\ pc # "panic:parse" /\ Len(msg) < BufLen
          /\ (msg = <<>> \/ msg[Len(msg)] = LF)) =>
          req.msg_body = [i \in 1..(BufLen - Len(msg)) |-> NUL]

\* A request of more than 90 bytes whose bytes after the 90th are a POST
\* request line was answered as the GET request of its first 90 bytes.
C17_LongRequestAnswered ==
    /\ RouteReturned
    /\ Len(msg) > BufLen
    /\ Contains(SubSeq(msg, BufLen + 1, Len(msg)), <<"P", "O", "S", "T">>)
    /\ req.method = "GET"
    /\ resp.status_code = S_200
    /\ resp.body = Some(FileContents(S_style_css))

IsHttpLine(line) ==
    Contains(line, S_HTTP)

\* The lines of a text that contain "HTTP", in the order of the text.
HttpLines(text) ==
    SelectSeq(Lines(text), IsHttpLine)

\* C18: every line containing "HTTP" is parsed as a request line, wherever it
\* stands: the parse panics exactly when one of them has fewer than three
\* words, none of them becomes a header or the body, and the method, resource
\* and version of the Request are the first three words of the last of them.
C18_LastHttpLineIsRequestLine ==
    LET http == HttpLines(req_text)
    IN  /\ pc \in {"parsed", "panic:parse"} =>
              (pc = "panic:parse" <=>
                  \E i \in 1..Len(http) : Len(SplitWhitespace(http[i])) < 3)
        /\ pc = "parsed" =>
              /\ \A i \in 1..Len(http) :
                    /\ req.msg_body # http[i]
                    /\ Contains(http[i], <<":">>) =>
                          KeyOf(http[i]) \notin DOMAIN req.headers
              /\ http # <<>> =>
                    LET words == SplitWhitespace(http[Len(http)])
                    IN  /\ req.method = MethodFrom(words[1])
                        /\ req.resource = words[2]
                        /\ req.version = VersionFrom(words[3])

\* A text with a request line first and two more lines containing "HTTP", one
\* where a header stands and one where the body stands, was parsed: the
\* Request is the POST of the last one.
C18_ThreeHttpLinesParsed ==
    /\ pc = "parsed"
    /\ Lines(req_text) = <<L_greeting, L_via, L_body_http>>
    /\ req.method = "POST"
    /\ req.resource = <<"/", "b">>
    /\ req.version = "UNINITIALIZED"

\* C19: the names passed to load_file for a request are "index.html",
\* "health.html", "404.html" or the first segment of the path of the request,
\* and none of them contains "/".
C19_LoadedNamesAreOneSegment ==
    RouteCalled =>
        \A i \in 1..Len(loaded) :
           /\ ~Contains(loaded[i], <<"/">>)
           /\ \/ loaded[i] \in {S_index_html, S_health_html, S_404_html}
              \/ /\ Len(Split(req.resource, "/")) > 1
                 /\ loaded[i] = FirstSegment(req)

\* A GET for a path of two segments was routed: load_file was asked for the
\* first segment alone, then for 404.html.
C19_TwoSegmentPathRouted ==
    /\ RouteReturned
    /\ req.method = "GET"
    /\ Len(Split(req.resource, "/")) = 3
    /\ Idx(Split(req.resource, "/"), 2) = S_style_css
    /\ loaded = <<S_css, S_404_html>>

\* C20: every response Router::route writes has exactly one header, keyed
\* Content-Type; the bytes written are the status line, the Content-Type
\* line, the Content-Length line, an empty line and the body, and they are
\* the same for every order in which the header mapping may be iterated.
C20_OneContentTypeHeader ==
    RouteReturned =>
        /\ resp.headers.some
        /\ DOMAIN resp.headers.val = {S_ContentType}
        /\ resp.headers.val[S_ContentType]
              \in {S_text_html, S_text_css, S_text_javascript, S_application_json}
        /\ \A o1, o2 \in KeyOrders(resp.headers.val) :
              StringFrom(resp, o1) = StringFrom(resp, o2)
        /\ ~write_failed =>
              stream = resp.version \o <<" ">> \o resp.status_code \o <<" ">>
                       \o resp.status_text \o CRLF
                       \o S_ContentType \o <<":">>
                       \o resp.headers.val[S_ContentType] \o CRLF
                       \o S_ContentLength \o Decimal(Len(Body(resp))) \o CRLF
                       \o CRLF
                       \o Body(resp)

\* The orders were written: the second line on the stream is the
\* Content-Type line of the JSON response and the third the Content-Length
\* line.
C20_JsonResponseWritten ==
    /\ RouteReturned
    /\ ~write_failed
    /\ Len(Lines(stream)) >= 5
    /\ Lines(stream)[2] = S_ContentType \o <<":">> \o S_application_json
    /\ SubSeq(Lines(stream)[3], 1, Len(S_ContentLength)) = S_ContentLength
    /\ Lines(stream)[4] = <<>>
    /\ Lines(stream)[5] = S_orders_json

====
